---- MODULE Spec2Model ----
(***************************************************************************)
(* Model of the session and request layer of searu-dash:                   *)
(*   lib/api.ts            req, get, del, post, put   (RequestClient)      *)
(*   routes/users/login.ts post                       (LoginFlow)          *)
(*   hooks (getSession)                               (SessionCodec)       *)
(*   layout (signOut)                                 (Logout)             *)
(*                                                                         *)
(* Text is modelled character by character: a string is a sequence of      *)
(* one-character strings.  JavaScript values are records with a tag.       *)
(***************************************************************************)
EXTENDS Integers, Sequences, FiniteSets, TLC

(***************************************************************************)
(* Bounds of the model.                                                    *)
(***************************************************************************)
MaxTextLen == 3      \* longest enumerated response body
MaxTokenLen == 2     \* longest enumerated bearer token
NumCalls == 2        \* RequestClient calls that can be in flight together

(***************************************************************************)
(* Characters and strings.                                                 *)
(***************************************************************************)
\* the printable ASCII characters, code 32 to code 126 (code 96 is spelled
\* out, the lexer does not take it inside a string)
Ascii ==
  << " ", "!", "\"", "#", "$", "%", "&", "'", "(", ")", "*", "+", ",", "-", ".", "/",
     "0", "1", "2", "3", "4", "5", "6", "7", "8", "9", ":", ";", "<", "=", ">", "?",
     "@", "A", "B", "C", "D", "E", "F", "G", "H", "I", "J", "K", "L", "M", "N", "O",
     "P", "Q", "R", "S", "T", "U", "V", "W", "X", "Y", "Z", "[", "\\", "]", "^", "_",
     "<grave>", "a", "b", "c", "d", "e", "f", "g", "h", "i", "j", "k", "l", "m", "n", "o",
     "p", "q", "r", "s", "t", "u", "v", "w", "x", "y", "z", "{", "|", "}", "~" >>

\* what a byte outside printable ASCII decodes to (collapsed to one marker)
NonAscii == "<non-ascii>"

Code(c) == 31 + (CHOOSE i \in 1..Len(Ascii) : Ascii[i] = c)

Chr(b) == IF b >= 32 /\ b <= 126 THEN Ascii[b - 31] ELSE NonAscii

Digits == <<"0", "1", "2", "3", "4", "5", "6", "7", "8", "9">>

IsDigit(c) == \E i \in 1..10 : Digits[i] = c

DigitVal(c) == (CHOOSE i \in 1..10 : Digits[i] = c) - 1

RECURSIVE NumStr(_)
NumStr(n) == IF n < 10 THEN <<Digits[n + 1]>>
             ELSE NumStr(n \div 10) \o <<Digits[(n % 10) + 1]>>

\* all strings over alphabet A of length at most n
RECURSIVE StringsUpTo(_, _)
StringsUpTo(A, n) ==
  IF n = 0 THEN {<<>>}
  ELSE LET S == StringsUpTo(A, n - 1)
       IN  S \cup {Append(s, c) : s \in {x \in S : Len(x) = n - 1}, c \in A}

StartsWithAt(s, i, w) ==
  /\ i + Len(w) - 1 <= Len(s)
  /\ SubSeq(s, i, i + Len(w) - 1) = w

\* first position >= i holding character c, or Len(s) + 1
RECURSIVE IndexFrom(_, _, _)
IndexFrom(s, i, c) ==
  IF i > Len(s) THEN Len(s) + 1
  ELSE IF s[i] = c THEN i
  ELSE IndexFrom(s, i + 1, c)

(***************************************************************************)
(* JavaScript values.                                                      *)
(***************************************************************************)
JUndef == [t |-> "undefined", n |-> 0, s |-> <<>>, o |-> <<>>]
JNull == [t |-> "null", n |-> 0, s |-> <<>>, o |-> <<>>]
JBool(b) == [t |-> "boolean", n |-> IF b THEN 1 ELSE 0, s |-> <<>>, o |-> <<>>]
JNum(k) == [t |-> "number", n |-> k, s |-> <<>>, o |-> <<>>]
JStr(str) == [t |-> "string", n |-> 0, s |-> str, o |-> <<>>]
\* members is a sequence of [k |-> key string, v |-> value], insertion order
JObj(members) == [t |-> "object", n |-> 0, s |-> <<>>, o |-> members]

\* ToBoolean, as used by `if (data)`, `if (token)` and `&&`
Truthy(v) ==
  CASE v.t = "undefined" -> FALSE
    [] v.t = "null" -> FALSE
    [] v.t = "boolean" -> v.n = 1
    [] v.t = "number" -> v.n # 0
    [] v.t = "string" -> v.s # <<>>
    [] v.t = "object" -> TRUE

HasKey(members, k) == \E i \in 1..Len(members) : members[i].k = k

\* property read v[k]; the caller checks that v is neither null nor undefined
GetProp(v, k) ==
  IF v.t = "object" /\ HasKey(v.o, k)
  THEN v.o[CHOOSE i \in 1..Len(v.o) : v.o[i].k = k].v
  ELSE JUndef

\* property write on an object under construction: a repeated key keeps its
\* place and takes the later value
SetMember(members, k, v) ==
  IF HasKey(members, k)
  THEN [i \in 1..Len(members) |->
          IF members[i].k = k THEN [k |-> k, v |-> v] ELSE members[i]]
  ELSE Append(members, [k |-> k, v |-> v])

(***************************************************************************)
(* JSON.stringify and JSON.parse, on the characters the model uses:        *)
(* null, true, false, non-negative integers, strings and objects.  Arrays, *)
(* signs, fractions, exponents and \u escapes are outside the input sets.  *)
(***************************************************************************)
RECURSIVE QuoteBody(_)
QuoteBody(str) ==
  IF str = <<>> THEN <<>>
  ELSE (IF Head(str) = "\"" \/ Head(str) = "\\"
        THEN <<"\\", Head(str)>> ELSE <<Head(str)>>) \o QuoteBody(Tail(str))

Quote(str) == <<"\"">> \o QuoteBody(str) \o <<"\"">>

RECURSIVE Stringify(_), StringifyMembers(_, _)
\* JSON.stringify of a value that is not undefined
Stringify(v) ==
  CASE v.t = "null" -> <<"n", "u", "l", "l">>
    [] v.t = "boolean" -> IF v.n = 1 THEN <<"t", "r", "u", "e">>
                          ELSE <<"f", "a", "l", "s", "e">>
    [] v.t = "number" -> NumStr(v.n)
    [] v.t = "string" -> Quote(v.s)
    [] v.t = "object" -> <<"{">> \o StringifyMembers(v.o, TRUE) \o <<"}">>

\* members whose value is undefined are left out
StringifyMembers(members, first) ==
  IF members = <<>> THEN <<>>
  ELSE LET m == Head(members)
       IN  IF m.v.t = "undefined" THEN StringifyMembers(Tail(members), first)
           ELSE (IF first THEN <<>> ELSE <<",">>)
                \o Quote(m.k) \o <<":">> \o Stringify(m.v)
                \o StringifyMembers(Tail(members), FALSE)

ParseFail == [ok |-> FALSE, v |-> JUndef, next |-> 0]
ParseOk(v, next) == [ok |-> TRUE, v |-> v, next |-> next]

IsWs(c) == c = " "

RECURSIVE SkipWs(_, _)
SkipWs(text, i) ==
  IF i <= Len(text) /\ IsWs(text[i]) THEN SkipWs(text, i + 1) ELSE i

\* digits from position i on: [n |-> value, next |-> first position after]
RECURSIVE ParseDigits(_, _, _)
ParseDigits(text, i, acc) ==
  IF i <= Len(text) /\ IsDigit(text[i])
  THEN ParseDigits(text, i + 1, acc * 10 + DigitVal(text[i]))
  ELSE [n |-> acc, next |-> i]

\* the characters of a string literal whose opening quote is before i
RECURSIVE ParseChars(_, _, _)
ParseChars(text, i, acc) ==
  IF i > Len(text) THEN ParseFail
  ELSE IF text[i] = "\"" THEN ParseOk(JStr(acc), i + 1)
  ELSE IF text[i] = "\\"
       THEN IF i + 1 <= Len(text) /\ text[i + 1] \in {"\"", "\\", "/"}
            THEN ParseChars(text, i + 2, Append(acc, text[i + 1]))
            ELSE ParseFail
  ELSE ParseChars(text, i + 1, Append(acc, text[i]))

RECURSIVE ParseValue(_, _), ParseMembers(_, _, _)
ParseValue(text, i0) ==
  LET i == SkipWs(text, i0)
  IN  IF i > Len(text) THEN ParseFail
      ELSE IF StartsWithAt(text, i, <<"n", "u", "l", "l">>) THEN ParseOk(JNull, i + 4)
      ELSE IF StartsWithAt(text, i, <<"t", "r", "u", "e">>) THEN ParseOk(JBool(TRUE), i + 4)
      ELSE IF StartsWithAt(text, i, <<"f", "a", "l", "s", "e">>) THEN ParseOk(JBool(FALSE), i + 5)
      ELSE IF text[i] = "0" THEN ParseOk(JNum(0), i + 1)
      ELSE IF IsDigit(text[i])
           THEN LET d == ParseDigits(text, i, 0) IN ParseOk(JNum(d.n), d.next)
      ELSE IF text[i] = "\"" THEN ParseChars(text, i + 1, <<>>)
      ELSE IF text[i] = "{"
           THEN LET j == SkipWs(text, i + 1)
                IN  IF j <= Len(text) /\ text[j] = "}" THEN ParseOk(JObj(<<>>), j + 1)
                    ELSE ParseMembers(text, j, <<>>)
      ELSE ParseFail

\* "key": value pairs up to the closing brace; i is where a key must start
ParseMembers(text, i0, acc) ==
  LET i == SkipWs(text, i0)
  IN  IF i > Len(text) \/ text[i] # "\"" THEN ParseFail
      ELSE LET key == ParseChars(text, i + 1, <<>>)
           IN  IF ~key.ok THEN ParseFail
               ELSE LET c == SkipWs(text, key.next)
                    IN  IF c > Len(text) \/ text[c] # ":" THEN ParseFail
                        ELSE LET val == ParseValue(text, c + 1)
                             IN  IF ~val.ok THEN ParseFail
                                 ELSE LET e == SkipWs(text, val.next)
                                          m == SetMember(acc, key.v.s, val.v)
                                      IN  IF e > Len(text) THEN ParseFail
                                          ELSE IF text[e] = "}" THEN ParseOk(JObj(m), e + 1)
                                          ELSE IF text[e] = "," THEN ParseMembers(text, e + 1, m)
                                          ELSE ParseFail

\* JSON.parse: [ok |-> FALSE] stands for the SyntaxError it throws
JsonParse(text) ==
  LET r == ParseValue(text, 1)
  IN  IF r.ok /\ SkipWs(text, r.next) = Len(text) + 1 THEN r ELSE ParseFail

(***************************************************************************)
(* Base64 and UTF-8, as Buffer.from(v, 'base64').toString('utf-8') uses    *)
(* them.                                                                   *)
(***************************************************************************)
B64Alphabet ==
  << "A", "B", "C", "D", "E", "F", "G", "H", "I", "J", "K", "L", "M", "N", "O", "P",
     "Q", "R", "S", "T", "U", "V", "W", "X", "Y", "Z", "a", "b", "c", "d", "e", "f",
     "g", "h", "i", "j", "k", "l", "m", "n", "o", "p", "q", "r", "s", "t", "u", "v",
     "w", "x", "y", "z", "0", "1", "2", "3", "4", "5", "6", "7", "8", "9", "+", "/" >>

IsB64(c) == c \in {"-", "_"} \/ \E i \in 1..64 : B64Alphabet[i] = c

\* the six bits of a character; the decoder also takes the URL-safe - and _
Sextet(c) ==
  CASE c = "-" -> 62
    [] c = "_" -> 63
    [] OTHER -> (CHOOSE i \in 1..64 : B64Alphabet[i] = c) - 1

\* the UTF-8 bytes of a string of printable ASCII characters
RECURSIVE Utf8Bytes(_)
Utf8Bytes(str) ==
  IF str = <<>> THEN <<>> ELSE <<Code(Head(str))>> \o Utf8Bytes(Tail(str))

\* the string a byte sequence decodes to; bytes outside printable ASCII are
\* collapsed to the NonAscii marker
RECURSIVE Utf8String(_)
Utf8String(bytes) ==
  IF bytes = <<>> THEN <<>> ELSE <<Chr(Head(bytes))>> \o Utf8String(Tail(bytes))

\* standard Base64 with = padding (what a writer of the cookie would apply)
RECURSIVE B64Encode(_)
B64Encode(bytes) ==
  IF bytes = <<>> THEN <<>>
  ELSE IF Len(bytes) = 1
       THEN << B64Alphabet[(bytes[1] \div 4) + 1],
               B64Alphabet[((bytes[1] % 4) * 16) + 1], "=", "=" >>
  ELSE IF Len(bytes) = 2
       THEN << B64Alphabet[(bytes[1] \div 4) + 1],
               B64Alphabet[((bytes[1] % 4) * 16 + bytes[2] \div 16) + 1],
               B64Alphabet[((bytes[2] % 16) * 4) + 1], "=" >>
  ELSE << B64Alphabet[(bytes[1] \div 4) + 1],
          B64Alphabet[((bytes[1] % 4) * 16 + bytes[2] \div 16) + 1],
          B64Alphabet[((bytes[2] % 16) * 4 + bytes[3] \div 64) + 1],
          B64Alphabet[(bytes[3] % 64) + 1] >>
       \o B64Encode(SubSeq(bytes, 4, Len(bytes)))

\* the sextets of the input up to the first padding character; characters
\* outside the alphabet are skipped
RECURSIVE B64Sextets(_)
B64Sextets(str) ==
  IF str = <<>> \/ Head(str) = "=" THEN <<>>
  ELSE IF IsB64(Head(str)) THEN <<Sextet(Head(str))>> \o B64Sextets(Tail(str))
  ELSE B64Sextets(Tail(str))

\* four sextets make three bytes; a trailing group of three makes two bytes,
\* of two makes one, and a single trailing sextet makes none
RECURSIVE B64Bytes(_)
B64Bytes(six) ==
  IF Len(six) < 2 THEN <<>>
  ELSE IF Len(six) = 2 THEN << six[1] * 4 + six[2] \div 16 >>
  ELSE IF Len(six) = 3
       THEN << six[1] * 4 + six[2] \div 16, (six[2] % 16) * 16 + six[3] \div 4 >>
  ELSE << six[1] * 4 + six[2] \div 16,
          (six[2] % 16) * 16 + six[3] \div 4,
          (six[3] % 4) * 64 + six[4] >>
       \o B64Bytes(SubSeq(six, 5, Len(six)))

\* Buffer.from(str, 'base64').toString('utf-8'): never throws
B64DecodeUtf8(str) == Utf8String(B64Bytes(B64Sextets(str)))

(***************************************************************************)
(* cookie.parse: the Cookie header as a mapping from names to values.      *)
(***************************************************************************)
RECURSIVE TrimLeft(_)
TrimLeft(str) ==
  IF str # <<>> /\ Head(str) = " " THEN TrimLeft(Tail(str)) ELSE str

RECURSIVE TrimRight(_)
TrimRight(str) ==
  IF str # <<>> /\ str[Len(str)] = " "
  THEN TrimRight(SubSeq(str, 1, Len(str) - 1)) ELSE str

Trim(str) == TrimLeft(TrimRight(str))

\* the pieces of str between occurrences of sep
RECURSIVE Split(_, _)
Split(str, sep) ==
  LET i == IndexFrom(str, 1, sep)
  IN  IF i > Len(str) THEN <<str>>
      ELSE <<SubSeq(str, 1, i - 1)>> \o Split(SubSeq(str, i + 1, Len(str)), sep)

\* a value in double quotes loses them
Unquote(val) ==
  IF val # <<>> /\ Head(val) = "\"" THEN SubSeq(val, 2, Len(val) - 1) ELSE val

\* pairs without = are skipped; the first pair of a name wins.  Values hold no
\* % in the model, so decodeURIComponent leaves them as they are.
RECURSIVE CookiePairs(_, _)
CookiePairs(pairs, acc) ==
  IF pairs = <<>> THEN acc
  ELSE LET pair == Head(pairs)
           eq == IndexFrom(pair, 1, "=")
           key == Trim(SubSeq(pair, 1, eq - 1))
           val == Unquote(Trim(SubSeq(pair, eq + 1, Len(pair))))
       IN  IF eq > Len(pair) \/ HasKey(acc, key)
           THEN CookiePairs(Tail(pairs), acc)
           ELSE CookiePairs(Tail(pairs), Append(acc, [k |-> key, v |-> JStr(val)]))

CookieParse(str) == JObj(CookiePairs(Split(str, ";"), <<>>))

(***************************************************************************)
(* RequestClient: lib/api.ts                                               *)
(***************************************************************************)
\* 'http://localhost:8000/api'
base ==
  <<"h", "t", "t", "p", ":", "/", "/", "l", "o", "c", "a", "l", "h", "o", "s", "t",
    ":", "8", "0", "0", "0", "/", "a", "p", "i">>

ApplicationJson == <<"a", "p", "p", "l", "i", "c", "a", "t", "i", "o", "n", "/", "j", "s", "o", "n">>

NoHeaders == [h \in {} |-> <<>>]

\* String(v), as a template literal applies it
TemplateString(v) ==
  CASE v.t = "undefined" -> <<"u", "n", "d", "e", "f", "i", "n", "e", "d">>
    [] v.t = "null" -> <<"n", "u", "l", "l">>
    [] v.t = "boolean" -> IF v.n = 1 THEN <<"t", "r", "u", "e">> ELSE <<"f", "a", "l", "s", "e">>
    [] v.t = "number" -> NumStr(v.n)
    [] v.t = "string" -> v.s
    [] v.t = "object" -> <<"[", "o", "b", "j", "e", "c", "t", " ", "O", "b", "j", "e", "c", "t", "]">>

\* opts.headers after the two ifs
ReqHeaders(data, token) ==
  (IF Truthy(data) THEN [h \in {"Content-Type"} |-> ApplicationJson] ELSE NoHeaders)
  @@ (IF Truthy(token)
      THEN [h \in {"Authorization"} |-> <<"T", "o", "k", "e", "n", " ">> \o TemplateString(token)]
      ELSE NoHeaders)

\* opts.body: '' unless data is truthy
ReqBody(data) == IF Truthy(data) THEN JStr(Stringify(data)) ELSE JStr(<<>>)

\* what req hands to fetch
req(method, path, data, token) ==
  [ url |-> base \o <<"/">> \o path,
    method |-> method,
    headers |-> ReqHeaders(data, token),
    body |-> ReqBody(data) ]

get(path, token) == req("GET", path, JUndef, token)
del(path, token) == req("DELETE", path, JUndef, token)
post(path, data, token) == req("POST", path, data, token)
put(path, data, token) == req("PUT", path, data, token)

\* the exported function named fn; get and del take no data
Api(fn, path, data, token) ==
  CASE fn = "get" -> get(path, token)
    [] fn = "del" -> del(path, token)
    [] fn = "post" -> post(path, data, token)
    [] fn = "put" -> put(path, data, token)

\* how a promise settles
Pending == [state |-> "pending", v |-> JUndef]
Fulfilled(v) == [state |-> "fulfilled", v |-> v]
Rejected == [state |-> "rejected", v |-> JUndef]

\* Decode without the catch: the SyntaxError rejects the promise
DecodeStrict(json) ==
  LET r == JsonParse(json)
  IN  IF r.ok THEN Fulfilled(r.v) ELSE Rejected

\* the second then of req: try JSON.parse, catch and return the text
Decode(json) ==
  LET r == JsonParse(json)
  IN  IF r.ok THEN Fulfilled(r.v) ELSE Fulfilled(JStr(json))

(***************************************************************************)
(* LoginFlow: routes/users/login.ts                                        *)
(***************************************************************************)
UsersLogin == <<"u", "s", "e", "r", "s", "/", "l", "o", "g", "i", "n">>
KeyUsername == <<"u", "s", "e", "r", "n", "a", "m", "e">>
KeyPassword == <<"p", "a", "s", "s", "w", "o", "r", "d">>
KeyToken == <<"t", "o", "k", "e", "n">>
CookiePrefix == <<"j", "w", "t", "=">>
CookieSuffix == <<";", " ", "P", "a", "t", "h", "=", "/", ";", " ", "H", "t", "t", "p", "O", "n", "l", "y">>

\* the object literal passed to api.post
LoginData(username, password) ==
  JObj(<<[k |-> KeyUsername, v |-> username], [k |-> KeyPassword, v |-> password]>>)

\* api.post('users/login', {...}): no token argument
LoginRequest(username, password) ==
  post(UsersLogin, LoginData(username, password), JUndef)

\* body['token'] throws a TypeError when body is null or undefined
LoginThrows(body) == body.t \in {"null", "undefined"}

\* LoginCookie with the token Base64-encoded at write time
LoginCookieEncoded(body) ==
  CookiePrefix \o B64Encode(Utf8Bytes(TemplateString(GetProp(body, KeyToken))))
  \o CookieSuffix

\* the 'set-cookie' template literal
LoginCookie(body) ==
  CookiePrefix \o TemplateString(GetProp(body, KeyToken)) \o CookieSuffix

(***************************************************************************)
(* The browser between a login and the next page request: it stores the    *)
(* name=value pair of a Set-Cookie header and sends it back as Cookie.     *)
(***************************************************************************)
SetCookiePair(setCookie) ==
  LET pair == Split(setCookie, ";")[1]
      eq == IndexFrom(pair, 1, "=")
  IN  [k |-> Trim(SubSeq(pair, 1, eq - 1)),
       v |-> JStr(Trim(SubSeq(pair, eq + 1, Len(pair))))]

RECURSIVE CookieHeader(_)
CookieHeader(pairs) ==
  IF pairs = <<>> THEN <<>>
  ELSE Head(pairs).k \o <<"=">> \o Head(pairs).v.s
       \o (IF Len(pairs) > 1 THEN <<";", " ">> ELSE <<>>)
       \o CookieHeader(Tail(pairs))

(***************************************************************************)
(* SessionCodec: getSession                                                *)
(***************************************************************************)
KeyJwt == <<"j", "w", "t">>

\* getSession without the Base64 step
getSessionRaw(cookie) ==
  LET cookies == CookieParse(IF Truthy(cookie) THEN cookie.s ELSE <<>>)
  IN  [jwt |-> GetProp(cookies, KeyJwt)]

\* cookie is headers.cookie: a string, or undefined when the header is missing
getSession(cookie) ==
  LET cookies == CookieParse(IF Truthy(cookie) THEN cookie.s ELSE <<>>)
      c == GetProp(cookies, KeyJwt)
  IN  [jwt |-> IF Truthy(c) THEN JStr(B64DecodeUtf8(c.s)) ELSE c]

(***************************************************************************)
(* Logout: signOut of the layout component                                 *)
(***************************************************************************)
UsersLogout == <<"u", "s", "e", "r", "s", "/", "l", "o", "g", "o", "u", "t">>

\* the arguments of fetch in signOut
SignOutRequest ==
  [ url |-> UsersLogout,
    method |-> "POST",
    credentials |-> "include",
    headers |-> [h \in {"Content-Type"} |-> ApplicationJson],
    body |-> JUndef ]

\* r.json(): rejects when the body is not JSON
ResponseJson(text) ==
  LET r == JsonParse(text)
  IN  IF r.ok THEN Fulfilled(r.v) ELSE Rejected

GotoTarget == <<"/">>

(***************************************************************************)
(* Inputs.                                                                 *)
(***************************************************************************)
TextChars == {"{", "}", "\"", ":", "0", "1", "a", ","}

Curated ==
  { <<"n", "u", "l", "l">>,
    <<"t", "r", "u", "e">>,
    <<"f", "a", "l", "s", "e">>,
    <<"{", "\"", "a", "\"", ":", "1", "}">>,
    <<"{", "\"", "t", "o", "k", "e", "n", "\"", ":", "\"", "a", "b", "c", "1", "2", "3", "\"", "}">>,
    <<"{", " ", "\"", "t", "o", "k", "e", "n", "\"", " ", ":", " ", "\"", "a", "\"", " ", ",", " ", "\"", "a", "\"", " ", ":", " ", "{", "}", " ", "}">>,
    <<"I", "n", "t", "e", "r", "n", "a", "l", " ", "S", "e", "r", "v", "e", "r", " ", "E", "r", "r", "o", "r">>,
    <<"O", "K">> }

\* response bodies: every text of up to MaxTextLen characters, and some longer
AllTexts == StringsUpTo(TextChars, MaxTextLen) \cup Curated

TokenChars == {"a", "1", "~"}

Abc123 == <<"a", "b", "c", "1", "2", "3">>

Tokens == StringsUpTo(TokenChars, MaxTokenLen) \cup {Abc123}

TokenBody(tok) == Stringify(JObj(<<[k |-> KeyToken, v |-> tok]>>))

\* what the login endpoint may answer
LoginTexts ==
  {TokenBody(JStr(t)) : t \in Tokens}
  \cup { TokenBody(JNull), TokenBody(JNum(7)), TokenBody(JObj(<<>>)),
         <<"{", "}">>, <<"n", "u", "l", "l">>, <<"0">>, <<"\"", "a", "\"">>, <<"t", "r", "u", "e">>, <<>>,
         <<"I", "n", "t", "e", "r", "n", "a", "l", " ", "S", "e", "r", "v", "e", "r", " ", "E", "r", "r", "o", "r">> }

Alice == <<"a", "l", "i", "c", "e">>
Secret == <<"s", "e", "c", "r", "e", "t">>

Usernames == {JStr(Alice), JStr(<<>>)}
Passwords == {JStr(Secret)}

Orders == <<"o", "r", "d", "e", "r", "s">>

Paths == {Orders, UsersLogin, <<>>}

Tok == <<"t", "o", "k">>

\* data arguments: falsy values first, then truthy ones
DataValues ==
  { JNum(0), JBool(FALSE), JStr(<<>>), JNull,
    JNum(1), JBool(TRUE), JStr(<<"a">>), JObj(<<>>),
    LoginData(JStr(Alice), JStr(Secret)) }

\* token arguments: not passed, empty, non-empty
TokenValues == {JUndef, JStr(<<>>), JStr(Tok)}

Functions == {"get", "del", "post", "put"}

\* arguments of one call: [fn, path, data, token]
ArgsOf(fns, paths, datas, tokens) ==
  { [fn |-> f, path |-> p, data |-> d, token |-> t] :
      f \in fns \cap {"post", "put"}, p \in paths, d \in datas, t \in tokens }
  \cup
  { [fn |-> f, path |-> p, data |-> JUndef, token |-> t] :
      f \in fns \cap {"get", "del"}, p \in paths, t \in tokens }

WideArgs == ArgsOf(Functions, Paths, DataValues \cup {JUndef}, TokenValues)

FewArgs == ArgsOf(Functions, {Orders}, {JObj(<<>>)}, {JUndef, JStr(Tok)})

FewTexts == { <<"{", "\"", "a", "\"", ":", "1", "}">>, <<"o", "o", "p", "s">>, <<"n", "u", "l", "l">> }

\* Cookie headers: up to two name=value pairs
CookieNames == {KeyJwt, <<"a">>}

CookieValues ==
  {B64Encode(Utf8Bytes(t)) : t \in Tokens} \cup {<<"x">>}

CookiePairSet == {[k |-> n, v |-> JStr(v)] : n \in CookieNames, v \in CookieValues}

CookieJars ==
  {<<>>} \cup {<<p>> : p \in CookiePairSet}
  \cup {<<p, q>> : p \in CookiePairSet, q \in CookiePairSet}

(***************************************************************************)
(* State.                                                                  *)
(***************************************************************************)
VARIABLES
  calls,     \* the RequestClient calls: arguments, request sent, response, result
  login,     \* one run of the login route's post
  jar,       \* the browser's cookies: a sequence of [k, v] pairs
  session,   \* the last getSession: the Cookie header it saw and what it returned
  signout    \* one run of signOut

vars == <<calls, login, jar, session, signout>>

Callers == 1..NumCalls

NoArgs == [fn |-> "", path |-> <<>>, data |-> JUndef, token |-> JUndef]

NoRequest == [url |-> <<>>, method |-> "", headers |-> NoHeaders, body |-> JUndef]

IdleCall ==
  [pc |-> "idle", args |-> NoArgs, sent |-> NoRequest, resp |-> <<>>, result |-> Pending]

Init ==
  /\ calls = [c \in Callers |-> IdleCall]
  /\ login = [ pc |-> "idle", username |-> JUndef, password |-> JUndef,
               sent |-> <<>>, resp |-> <<>>, body |-> JUndef, setCookie |-> JUndef ]
  /\ jar = <<>>
  /\ session = [pc |-> "none", cookie |-> JUndef, out |-> [jwt |-> JUndef]]
  /\ signout = [pc |-> "idle", sent |-> <<>>, resp |-> <<>>, navigated |-> JUndef]

(***************************************************************************)
(* RequestClient calls.                                                    *)
(***************************************************************************)
\* ResponseOf with the response text kept in one place for all calls: the
\* text that arrived last is the text of the highest call that has one
ResponseShared(cs, c) ==
  LET have == {d \in DOMAIN cs : cs[d].pc \in {"responded", "done"}}
  IN  cs[CHOOSE d \in have : \A e \in have : e <= d].resp

\* the text the second then of call c receives: that call's own response
ResponseOf(cs, c) == cs[c].resp

\* get, del, post or put is called: req builds opts and calls fetch
Call(c, a) ==
  /\ calls[c].pc = "idle"
  /\ calls' = [calls EXCEPT ![c] =
       [@ EXCEPT !.pc = "sent", !.args = a,
                 !.sent = Api(a.fn, a.path, a.data, a.token)]]
  /\ UNCHANGED <<login, jar, session, signout>>

\* the remote answers call c, and r.text() reads the body
Respond(c, text) ==
  /\ calls[c].pc = "sent"
  /\ calls' = [calls EXCEPT ![c] = [@ EXCEPT !.pc = "responded", !.resp = text]]
  /\ UNCHANGED <<login, jar, session, signout>>

\* the second then of call c runs and the promise settles
Resolve(c) ==
  /\ calls[c].pc = "responded"
  /\ calls' = [calls EXCEPT ![c] =
       [@ EXCEPT !.pc = "done", !.result = Decode(ResponseOf(calls, c))]]
  /\ UNCHANGED <<login, jar, session, signout>>

(***************************************************************************)
(* LoginFlow.                                                              *)
(***************************************************************************)
\* post(request) runs up to the await: one api.post
LoginSubmit(username, password) ==
  /\ login.pc = "idle"
  /\ login' = [login EXCEPT !.pc = "submitting", !.username = username,
                            !.password = password,
                            !.sent = Append(@, LoginRequest(username, password))]
  /\ UNCHANGED <<calls, jar, session, signout>>

\* the remote answers the login call
LoginRespond(text) ==
  /\ login.pc = "submitting"
  /\ login' = [login EXCEPT !.pc = "responded", !.resp = text]
  /\ UNCHANGED <<calls, jar, session, signout>>

\* api.post settles and post(request) runs from the await to its return
LoginReturn ==
  /\ login.pc = "responded"
  /\ LET body == Decode(login.resp).v
     IN  IF LoginThrows(body)
         THEN login' = [login EXCEPT !.pc = "threw", !.body = body]
         ELSE login' = [login EXCEPT !.pc = "established", !.body = body,
                                     !.setCookie = JStr(LoginCookie(body))]
  /\ UNCHANGED <<calls, jar, session, signout>>

\* the browser stores the cookie of the login response
BrowserSetCookie ==
  /\ login.pc = "established"
  /\ jar = <<>>
  /\ LET pair == SetCookiePair(login.setCookie.s)
     IN  jar' = SetMember(jar, pair.k, pair.v)
  /\ UNCHANGED <<calls, login, session, signout>>

(***************************************************************************)
(* SessionCodec.                                                           *)
(***************************************************************************)
\* a page request arrives with the browser's cookies (no Cookie header when
\* there are none) and the framework calls getSession
PageRequest ==
  /\ LET cookie == IF jar = <<>> THEN JUndef ELSE JStr(CookieHeader(jar))
     IN  session' = [pc |-> "derived", cookie |-> cookie, out |-> getSession(cookie)]
  /\ UNCHANGED <<calls, login, jar, signout>>

\* a client that has not made a request yet holds the cookies it likes
SetJar(pairs) ==
  /\ jar = <<>>
  /\ session.pc = "none"
  /\ jar' = pairs
  /\ UNCHANGED <<calls, login, session, signout>>

(***************************************************************************)
(* Logout.                                                                 *)
(***************************************************************************)
\* signOut runs up to the await: one fetch
SignOut ==
  /\ signout.pc = "idle"
  /\ signout' = [signout EXCEPT !.pc = "waiting", !.sent = Append(@, SignOutRequest)]
  /\ UNCHANGED <<calls, login, jar, session>>

\* the remote answers the logout call
SignOutRespond(text) ==
  /\ signout.pc = "waiting"
  /\ signout' = [signout EXCEPT !.pc = "responded", !.resp = text]
  /\ UNCHANGED <<calls, login, jar, session>>

\* r.json() settles: goto('/') runs only when the await did not throw
SignOutReturn ==
  /\ signout.pc = "responded"
  /\ IF ResponseJson(signout.resp).state = "fulfilled"
     THEN signout' = [signout EXCEPT !.pc = "done", !.navigated = JStr(GotoTarget)]
     ELSE signout' = [signout EXCEPT !.pc = "rejected"]
  /\ UNCHANGED <<calls, login, jar, session>>

(***************************************************************************)
(* Specifications.                                                         *)
(***************************************************************************)
\* one call, every argument combination, a few response bodies
NextRequest ==
  \/ \E a \in WideArgs : Call(1, a)
  \/ \E text \in FewTexts : Respond(1, text)
  \/ Resolve(1)

SpecRequest == Init /\ [][NextRequest]_vars

\* one call, every response body
NextDecode ==
  \/ \E a \in FewArgs : Call(1, a)
  \/ \E text \in AllTexts : Respond(1, text)
  \/ Resolve(1)

SpecDecode == Init /\ [][NextDecode]_vars

\* NumCalls calls in flight, interleaved
NextClient ==
  \/ \E c \in Callers, a \in FewArgs : Call(c, a)
  \/ \E c \in Callers, text \in FewTexts : Respond(c, text)
  \/ \E c \in Callers : Resolve(c)

SpecClient == Init /\ [][NextClient]_vars

\* a login, the browser, and page requests
NextLogin ==
  \/ \E u \in Usernames, p \in Passwords : LoginSubmit(u, p)
  \/ \E text \in LoginTexts : LoginRespond(text)
  \/ LoginReturn
  \/ BrowserSetCookie
  \/ PageRequest

SpecLogin == Init /\ [][NextLogin]_vars

\* page requests with arbitrary cookies
NextSession ==
  \/ \E pairs \in CookieJars : SetJar(pairs)
  \/ PageRequest

SpecSession == Init /\ [][NextSession]_vars

\* a logout, every response body
NextLogout ==
  \/ SignOut
  \/ \E text \in AllTexts : SignOutRespond(text)
  \/ SignOutReturn

SpecLogout == Init /\ [][NextLogout]_vars

\* The components share no variable: their composition.  Each property below
\* is stated for the specification of the component it is about.
Next ==
  \/ NextRequest
  \/ NextDecode
  \/ NextClient
  \/ NextLogin
  \/ NextSession
  \/ NextLogout

Spec == Init /\ [][Next]_vars

(***************************************************************************)
(* Properties.                                                             *)
(***************************************************************************)
Started(c) == calls[c].pc # "idle"

HasHeader(request, name) == name \in DOMAIN request.headers

RoundTripValues ==
  { JNull, JBool(TRUE), JBool(FALSE), JNum(0), JNum(1), JNum(10), JNum(101),
    JStr(<<>>), JStr(<<"a">>), JStr(<<"{", "a">>), JObj(<<>>),
    JObj(<<[k |-> <<"a">>, v |-> JNum(1)]>>),
    JObj(<<[k |-> KeyToken, v |-> JStr(Abc123)]>>) }

\* C1: a call that has settled is fulfilled, never rejected: with the parsed
\* value when the response text is valid JSON (so the text of a serialized
\* value gives that value back), with the raw text unchanged when it is not.
C1_LenientDecode ==
  \A c \in Callers :
    calls[c].pc = "done" =>
      LET text == calls[c].resp
          r == JsonParse(text)
      IN  /\ calls[c].result.state = "fulfilled"
          /\ r.ok => calls[c].result.v = r.v
          /\ ~r.ok => calls[c].result.v = JStr(text)
          /\ \A v \in RoundTripValues :
               text = Stringify(v) => calls[c].result.v = v

C1_Witness ==
  /\ calls[1].pc = "done"
  /\ calls[1].resp = <<"I", "n", "t", "e", "r", "n", "a", "l", " ", "S", "e", "r", "v", "e", "r", " ", "E", "r", "r", "o", "r">>
  /\ calls[1].result = Fulfilled(JStr(<<"I", "n", "t", "e", "r", "n", "a", "l", " ", "S", "e", "r", "v", "e", "r", " ", "E", "r", "r", "o", "r">>))

\* C2: every post or put that was given data, falsy data included, sends the
\* JSON serialization of data as its body, with Content-Type application/json.
C2_BodyIsSerializedData ==
  \A c \in Callers :
    (Started(c) /\ calls[c].args.fn \in {"post", "put"} /\ calls[c].args.data # JUndef) =>
      /\ calls[c].sent.body = JStr(Stringify(calls[c].args.data))
      /\ HasHeader(calls[c].sent, "Content-Type")
      /\ calls[c].sent.headers["Content-Type"] = ApplicationJson

\* C3: every call that was given a token string, the empty string included,
\* sends Authorization 'Token <token>'; a call given no token sends none.
C3_AuthorizationHeader ==
  \A c \in Callers :
    Started(c) =>
      /\ calls[c].args.token.t = "string" =>
           /\ HasHeader(calls[c].sent, "Authorization")
           /\ calls[c].sent.headers["Authorization"]
                = <<"T", "o", "k", "e", "n", " ">> \o calls[c].args.token.s
      /\ calls[c].args.token = JUndef => ~HasHeader(calls[c].sent, "Authorization")

\* C4: a call with neither data nor token is issued with no body at all (not
\* even an empty one), no headers, to base, '/', path.
C4_BareRequest ==
  \A c \in Callers :
    (Started(c) /\ calls[c].args.data = JUndef /\ calls[c].args.token = JUndef) =>
      /\ calls[c].sent.body = JUndef
      /\ ~HasHeader(calls[c].sent, "Content-Type")
      /\ ~HasHeader(calls[c].sent, "Authorization")
      /\ calls[c].sent.url = base \o <<"/">> \o calls[c].args.path

\* C5: a login sends exactly one request, a POST to base/users/login without
\* Authorization whose body is the serialized credentials; it has produced no
\* Set-Cookie until the call has returned; and when the body returned has a
\* token string t, the Set-Cookie is exactly 'jwt=' t '; Path=/; HttpOnly'.
C5_LoginSetsCookie ==
  /\ login.pc = "idle" => login.sent = <<>>
  /\ login.pc # "idle" =>
       /\ Len(login.sent) = 1
       /\ login.sent[1].method = "POST"
       /\ login.sent[1].url = base \o <<"/">> \o UsersLogin
       /\ ~HasHeader(login.sent[1], "Authorization")
       /\ login.sent[1].body
            = JStr(Stringify(LoginData(login.username, login.password)))
  /\ login.pc \in {"idle", "submitting", "responded"} => login.setCookie = JUndef
  /\ (login.pc = "established" /\ GetProp(login.body, KeyToken).t = "string") =>
       login.setCookie
         = JStr(<<"j", "w", "t", "=">> \o GetProp(login.body, KeyToken).s
                \o <<";", " ", "P", "a", "t", "h", "=", "/", ";", " ", "H", "t", "t", "p", "O", "n", "l", "y">>)

C5_Witness ==
  /\ login.pc = "established"
  /\ login.username = JStr(Alice)
  /\ login.resp = <<"{", "\"", "t", "o", "k", "e", "n", "\"", ":", "\"", "a", "b", "c", "1", "2", "3", "\"", "}">>
  /\ login.setCookie = JStr(<<"j", "w", "t", "=", "a", "b", "c", "1", "2", "3", ";", " ", "P", "a", "t", "h", "=", "/", ";", " ", "H", "t", "t", "p", "O", "n", "l", "y">>)

\* the first pair named jwt of a cookie list, <<>> when there is none
RECURSIVE FirstJwt(_)
FirstJwt(pairs) ==
  IF pairs = <<>> THEN <<>>
  ELSE IF Head(pairs).k = KeyJwt THEN <<Head(pairs)>>
  ELSE FirstJwt(Tail(pairs))

\* C6: a session derived from a request whose cookies have no jwt (or from a
\* request without Cookie header) has jwt absent; derived from a request whose
\* first jwt cookie has value v, it has jwt = the Base64 decoding of v, so
\* that a jwt cookie Base64(token) gives jwt = token.
C6_SessionDecoded ==
  session.pc = "derived" =>
    /\ jar = <<>> => session.cookie = JUndef
    /\ FirstJwt(jar) = <<>> => session.out = [jwt |-> JUndef]
    /\ FirstJwt(jar) # <<>> =>
         session.out = [jwt |-> JStr(B64DecodeUtf8(FirstJwt(jar)[1].v.s))]
    /\ \A t \in Tokens :
         (FirstJwt(jar) # <<>> /\ FirstJwt(jar)[1].v = JStr(B64Encode(Utf8Bytes(t))))
           => session.out = [jwt |-> JStr(t)]

C6_Witness ==
  /\ session.pc = "derived"
  /\ Len(jar) = 2
  /\ jar[1].k = <<"a">>
  /\ jar[2] = [k |-> KeyJwt, v |-> JStr(<<"Y", "X", "4", "=">>)]
  /\ session.out = [jwt |-> JStr(<<"a", "~">>)]

\* C7: the session derived from a request that carries the cookie a login set
\* has the token of that login, and that cookie holds the token's Base64.
C7_CookieRoundTrip ==
  ( /\ login.pc = "established"
    /\ GetProp(login.body, KeyToken).t = "string"
    /\ jar # <<>>
    /\ session.pc = "derived"
    /\ session.cookie = JStr(CookieHeader(jar)) ) =>
      /\ jar[1].v = JStr(B64Encode(Utf8Bytes(GetProp(login.body, KeyToken).s)))
      /\ session.out = [jwt |-> GetProp(login.body, KeyToken)]

\* C8: whatever the interleaving, the request of each call is the one its own
\* arguments give and its result the one its own response gives.
C8_CallsIndependent ==
  \A c \in Callers :
    /\ Started(c) =>
         calls[c].sent
           = Api(calls[c].args.fn, calls[c].args.path, calls[c].args.data,
                 calls[c].args.token)
    /\ calls[c].pc = "done" => calls[c].result = Decode(calls[c].resp)
    /\ calls[c].pc # "done" => calls[c].result = Pending

C8_Witness ==
  /\ calls[1].pc = "done"
  /\ calls[2].pc = "done"
  /\ calls[1].args.fn = "post"
  /\ calls[2].args.fn = "get"
  /\ calls[1].resp = <<"o", "o", "p", "s">>
  /\ calls[2].resp = <<"{", "\"", "a", "\"", ":", "1", "}">>
  /\ calls[1].result = Fulfilled(JStr(<<"o", "o", "p", "s">>))
  /\ calls[2].result.v.t = "object"

\* C9: a logout sends one POST to users/logout without Authorization, has not
\* navigated while the call is open, and has navigated to '/' once signOut has
\* finished with the response, whatever the response body.
C9_LogoutNavigates ==
  /\ signout.pc # "idle" =>
       /\ Len(signout.sent) = 1
       /\ signout.sent[1].method = "POST"
       /\ signout.sent[1].url = UsersLogout
       /\ ~HasHeader(signout.sent[1], "Authorization")
  /\ signout.pc \in {"idle", "waiting", "responded"} => signout.navigated = JUndef
  /\ signout.pc \in {"done", "rejected"} => signout.navigated = JStr(GotoTarget)

IsLoginCookie(str) ==
  /\ Len(str) >= Len(CookiePrefix) + Len(CookieSuffix)
  /\ SubSeq(str, 1, Len(CookiePrefix)) = CookiePrefix
  /\ SubSeq(str, Len(str) - Len(CookieSuffix) + 1, Len(str)) = CookieSuffix

\* C10: whatever the login call returns, post(request) does not throw: once it
\* has finished it has returned a set-cookie 'jwt=<x>; Path=/; HttpOnly'.
C10_LoginNeverThrows ==
  /\ login.pc # "threw"
  /\ login.pc = "established" =>
       login.setCookie.t = "string" /\ IsLoginCookie(login.setCookie.s)

====
